---- MODULE Spec2Model ----
(***************************************************************************)
(* Model of src/src/network.rs: Network::new, load, save, feed_forward,    *)
(* back_propogate and train, over the Matrix primitive and the activation  *)
(* capability the file imports (crate::matrix, crate::activations).        *)
(*                                                                         *)
(* Scalars are f64 in the source.  The model keeps them to small integers, *)
(* on which f64 addition, subtraction and multiplication are exact, and    *)
(* bounds their magnitude by MaxAbs.                                       *)
(***************************************************************************)
EXTENDS Integers, Sequences, FiniteSets, TLC

\* ------------------------------------------------------------------ bounds

\* Largest total number of neurons of a topology handed to Network::new.
MaxNeurons == 4
\* Number of seeds of the pseudo-random source used by Matrix::random.
NumSeeds == 2
\* Number of calls made on the network after its construction.
MaxOps == 4
\* Largest epochs argument of train for which the examples are run.
MaxEpochs == 2
\* Largest number of examples in a training batch.
MaxBatch == 2
\* Largest magnitude of a weight or bias the model follows.
MaxAbs == 6

\* ------------------------------------------------------- program constants

\* train prints every (epochs / 100)-th epoch once epochs reaches 100.
LogThreshold == 100
\* epochs is a u16.
MaxU16 == 65535

\* ------------------------------------------------------------ small helpers

Last(s) == s[Len(s)]

Ones(k) == [x \in 1..k |-> 1]

Zeros(k) == [x \in 1..k |-> 0]

RECURSIVE SumSeq(_)
SumSeq(s) == IF s = <<>> THEN 0 ELSE s[1] + SumSeq(Tail(s))

RECURSIVE Flatten(_)
Flatten(ss) == IF ss = <<>> THEN <<>> ELSE ss[1] \o Flatten(Tail(ss))

Abs(x) == IF x < 0 THEN -x ELSE x

\* ------------------------------------------------------- activation (F)

\* F::function: a rectifier, total and deterministic on the scalars.
function(x) == IF x > 0 THEN x ELSE 0

\* F::derivative, applied to cached activations.
derivative(x) == IF x > 0 THEN 1 ELSE 0

\* ------------------------------------------------------------ Matrix

\* rows x cols scalars addressed by (row, column).  SubSeq(s, 1, Len(s)) is s:
\* it only makes the rows explicit tuples as soon as the matrix is built.
Matrix(r, c, cells) ==
    [rows |-> r, cols |-> c,
     at |-> SubSeq([i \in 1..r |-> SubSeq(cells[i], 1, c)], 1, r)]

\* Matrix::row: one row holding the given scalars.
Row(v) == Matrix(1, Len(v), <<v>>)

Transpose(a) ==
    Matrix(a.cols, a.rows, [j \in 1..a.cols |-> [i \in 1..a.rows |-> a.at[i][j]]])

SameShape(a, b) == a.rows = b.rows /\ a.cols = b.cols

\* add, sub, dot (elementwise product): the callers test SameShape first.
Add(a, b) ==
    Matrix(a.rows, a.cols, [i \in 1..a.rows |-> [j \in 1..a.cols |-> a.at[i][j] + b.at[i][j]]])

Sub(a, b) ==
    Matrix(a.rows, a.cols, [i \in 1..a.rows |-> [j \in 1..a.cols |-> a.at[i][j] - b.at[i][j]]])

Dot(a, b) ==
    Matrix(a.rows, a.cols, [i \in 1..a.rows |-> [j \in 1..a.cols |-> a.at[i][j] * b.at[i][j]]])

CanMul(a, b) == a.cols = b.rows

RECURSIVE InnerSum(_, _, _, _, _)
InnerSum(a, b, i, j, k) ==
    IF k = 0 THEN 0 ELSE a.at[i][k] * b.at[k][j] + InnerSum(a, b, i, j, k - 1)

\* mul (matrix product): the callers test CanMul first.
Mul(a, b) ==
    Matrix(a.rows, b.cols, [i \in 1..a.rows |-> [j \in 1..b.cols |-> InnerSum(a, b, i, j, a.cols)]])

MapDerivative(a) ==
    Matrix(a.rows, a.cols, [i \in 1..a.rows |-> [j \in 1..a.cols |-> derivative(a.at[i][j])]])

MapFunction(a) ==
    Matrix(a.rows, a.cols, [i \in 1..a.rows |-> [j \in 1..a.cols |-> function(a.at[i][j])]])

Scale(a, k) ==
    Matrix(a.rows, a.cols, [i \in 1..a.rows |-> [j \in 1..a.cols |-> a.at[i][j] * k]])

\* The k-th scalar of the pseudo-random stream of a seed, in [-1, 1].
RandomScalar(seed, k) == ((seed + k * k) % 3) - 1

\* Matrix::random(rows, cols), drawing from the stream at offset `from`.
Random(r, c, seed, from) ==
    Matrix(r, c, [i \in 1..r |-> [j \in 1..c |-> RandomScalar(seed, from + (i - 1) * c + j)]])

InRange(a) == \A i \in 1..a.rows : \A j \in 1..a.cols : Abs(a.at[i][j]) <= MaxAbs

\* ------------------------------------------------------------ Network

Network(layers, weights, biases, data, lr) ==
    [layers |-> layers, weights |-> weights, biases |-> biases, data |-> data,
     learning_rate |-> lr]

NoNetwork == Network(<<>>, <<>>, <<>>, <<>>, 0)

\* What an operation returns to the model: the network it leaves, how it
\* ended ("none", a panic, or an Err), the returned vector, and a trace.
Outcome(net, err, ret, aux) == [net |-> net, err |-> err, ret |-> ret, aux |-> aux]

PanicKinds ==
    {"SubtractOverflow", "InvalidNumberOfInputs", "InvalidNumberOfTargets",
     "ShapeMismatch", "IndexOutOfBounds", "UnwrapNone", "FailedToParse",
     "DivideByZero"}

\* Number of scalars Network::new has drawn before it builds weights[i].
DrawnBefore(layers, i) ==
    SumSeq([k \in 1..(i - 1) |-> layers[k + 1] * layers[k] + layers[k + 1]])

NewWeights(layers, seed) ==
    [i \in 1..(Len(layers) - 1) |->
        Random(layers[i + 1], layers[i], seed, DrawnBefore(layers, i))]

NewBiases(layers, seed) ==
    [i \in 1..(Len(layers) - 1) |->
        Random(layers[i + 1], 1, seed, DrawnBefore(layers, i) + layers[i + 1] * layers[i])]

\* Network::new.  layers.len() - 1 on an empty vector overflows usize: a
\* panic in a checked build, a capacity-overflow panic in an unchecked one.
New(layers, lr, seed) ==
    IF Len(layers) = 0
    THEN Outcome(NoNetwork, "SubtractOverflow", <<>>, <<>>)
    ELSE Outcome(Network(layers, NewWeights(layers, seed), NewBiases(layers, seed), <<>>, lr),
                 "none", <<>>, <<>>)

\* ------------------------------------------------------------ feed_forward

\* A faulty variant of InputsValid: only too many inputs are refused.
InputsValidLax(net, inputs) == Len(inputs) <= net.layers[1]

InputsValid(net, inputs) == Len(inputs) = net.layers[1]

\* A faulty variant of FeedStart: the input column is pushed onto the old cache.
FeedStartAppend(net, current) == Append(net.data, current)

\* self.data = vec![current.clone()]
FeedStart(net, current) == <<current>>

\* A faulty variant of FeedStore: the sum is accumulated into biases[i] in place.
FeedStoreAccumulating(net, i, next) ==
    [net EXCEPT !.data = Append(net.data, next), !.biases[i] = next]

\* self.data.push(current.clone()) in iteration i
FeedStore(net, i, next) == [net EXCEPT !.data = Append(net.data, next)]

\* 0..self.layers.len() - 1, as the last 1-based index of the loop.
FeedLoopEnd(net) == Len(net.layers) - 1

RECURSIVE FeedLoop(_, _, _)
FeedLoop(net, i, current) ==
    IF i > FeedLoopEnd(net)
    THEN Outcome(net, "none", Transpose(current).at[1], <<>>)
    ELSE IF i > Len(net.weights)
    THEN Outcome(net, "IndexOutOfBounds", <<>>, <<>>)
    ELSE IF ~CanMul(net.weights[i], current)
    THEN Outcome(net, "ShapeMismatch", <<>>, <<>>)
    ELSE IF i > Len(net.biases)
    THEN Outcome(net, "IndexOutOfBounds", <<>>, <<>>)
    ELSE IF ~SameShape(Mul(net.weights[i], current), net.biases[i])
    THEN Outcome(net, "ShapeMismatch", <<>>, <<>>)
    ELSE LET next == MapFunction(Add(Mul(net.weights[i], current), net.biases[i]))
         IN  FeedLoop(FeedStore(net, i, next), i + 1, next)

FeedForward(net, inputs) ==
    IF Len(net.layers) = 0
    THEN Outcome(net, "IndexOutOfBounds", <<>>, <<>>)
    ELSE IF ~InputsValid(net, inputs)
    THEN Outcome(net, "InvalidNumberOfInputs", <<>>, <<>>)
    ELSE LET current == Transpose(Row(inputs))
         IN  FeedLoop([net EXCEPT !.data = FeedStart(net, current)], 1, current)

\* ------------------------------------------------------------ back_propogate

TargetsValid(net, targets) == Len(targets) = Last(net.layers)

\* What the walk has done so far: how often it assigned each weights[i] and
\* biases[i], and per iteration the error it received and the one it passed on.
BackTrace(net) ==
    [w |-> [i \in 1..Len(net.weights) |-> 0], b |-> [i \in 1..Len(net.biases) |-> 0],
     steps |-> <<>>]

\* gradients.dot(&errors).map(|x| x * self.learning_rate)
ScaledGradient(net, gradients, errors) == Scale(Dot(gradients, errors), net.learning_rate)

\* self.weights[i].add(&gradients.mul(&self.data[i].transpose()))
UpdatedWeight(net, i, g) == Add(net.weights[i], Mul(g, Transpose(net.data[i])))

\* self.biases[i].add(&gradients)
UpdatedBias(net, i, g) == Add(net.biases[i], g)

\* The matrix line 132 reads for the propagation: self.weights[i] after the
\* assignment of line 129 (`before` is the network when the iteration began).
PropagationWeight(before, after, i) == after.weights[i]

RECURSIVE BackLoop(_, _, _, _, _)
BackLoop(net, i, errors, gradients, tr) ==
    IF i < 1
    THEN Outcome(net, "none", <<>>, tr)
    ELSE IF ~SameShape(gradients, errors)
    THEN Outcome(net, "ShapeMismatch", <<>>, tr)
    ELSE IF i > Len(net.weights) \/ i > Len(net.data)
    THEN Outcome(net, "IndexOutOfBounds", <<>>, tr)
    ELSE LET g == ScaledGradient(net, gradients, errors) IN
    IF ~CanMul(g, Transpose(net.data[i]))
    THEN Outcome(net, "ShapeMismatch", <<>>, tr)
    ELSE IF ~SameShape(net.weights[i], Mul(g, Transpose(net.data[i])))
    THEN Outcome(net, "ShapeMismatch", <<>>, tr)
    ELSE IF ~InRange(UpdatedWeight(net, i, g))
    THEN Outcome(net, "OutOfModelRange", <<>>, tr)
    ELSE LET net1 == [net EXCEPT !.weights[i] = UpdatedWeight(net, i, g)]
             tr1 == [tr EXCEPT !.w[i] = @ + 1]
         IN
    IF i > Len(net1.biases)
    THEN Outcome(net1, "IndexOutOfBounds", <<>>, tr1)
    ELSE IF ~SameShape(net1.biases[i], g)
    THEN Outcome(net1, "ShapeMismatch", <<>>, tr1)
    ELSE IF ~InRange(UpdatedBias(net1, i, g))
    THEN Outcome(net1, "OutOfModelRange", <<>>, tr1)
    ELSE LET net2 == [net1 EXCEPT !.biases[i] = UpdatedBias(net1, i, g)]
             tr2 == [tr1 EXCEPT !.b[i] = @ + 1]
             wT == Transpose(PropagationWeight(net, net2, i))
         IN
    IF ~CanMul(wT, errors)
    THEN Outcome(net2, "ShapeMismatch", <<>>, tr2)
    ELSE LET passed == Mul(wT, errors)
             tr3 == [tr2 EXCEPT !.steps =
                        Append(@, [i |-> i, received |-> errors, passed |-> passed])]
         IN  BackLoop(net2, i - 1, passed, MapDerivative(net2.data[i]), tr3)

BackPropogate(net, outputs, targets) ==
    IF Len(net.layers) = 0
    THEN Outcome(net, "UnwrapNone", <<>>, BackTrace(net))
    ELSE IF ~TargetsValid(net, targets)
    THEN Outcome(net, "InvalidNumberOfTargets", <<>>, BackTrace(net))
    ELSE IF ~SameShape(Row(targets), Row(outputs))
    THEN Outcome(net, "ShapeMismatch", <<>>, BackTrace(net))
    ELSE BackLoop(net, Len(net.layers) - 1, Sub(Row(targets), Row(outputs)),
                  MapDerivative(Row(outputs)), BackTrace(net))

\* ------------------------------------------------------------ train

\* i % (epochs / 100) is evaluated only when epochs < 100 is false.
ProgressFaults(epochs) == epochs >= LogThreshold /\ epochs \div LogThreshold = 0

\* The target train hands to back_propogate for example j.
TrainTarget(targets, j) == targets[j]

RECURSIVE TrainLoop(_, _, _, _, _, _, _)
TrainLoop(net, inputs, targets, epochs, i, j, calls) ==
    IF i > epochs
    THEN Outcome(net, "none", <<>>, calls)
    ELSE IF j = 1 /\ ProgressFaults(epochs)
    THEN Outcome(net, "DivideByZero", <<>>, calls)
    ELSE IF Len(inputs) = 0
    THEN Outcome(net, "none", <<>>, calls)  \* the epochs left run no example
    ELSE IF j > Len(inputs)
    THEN TrainLoop(net, inputs, targets, epochs, i + 1, 1, calls)
    ELSE LET f == FeedForward(net, inputs[j])
             c1 == Append(calls, [op |-> "forward", epoch |-> i, idx |-> j,
                                  a |-> inputs[j], b |-> f.ret])
         IN
    IF f.err # "none"
    THEN Outcome(f.net, f.err, <<>>, c1)
    ELSE IF j > Len(targets)
    THEN Outcome(f.net, "IndexOutOfBounds", <<>>, c1)
    ELSE LET t == TrainTarget(targets, j)
             b == BackPropogate(f.net, f.ret, t)
             c2 == Append(c1, [op |-> "backward", epoch |-> i, idx |-> j,
                               a |-> f.ret, b |-> t])
         IN
    IF b.err # "none"
    THEN Outcome(b.net, b.err, <<>>, c2)
    ELSE TrainLoop(b.net, inputs, targets, epochs, i, j + 1, c2)

Train(net, inputs, targets, epochs) == TrainLoop(net, inputs, targets, epochs, 1, 1, <<>>)

\* ------------------------------------------------------------ save / load

\* A faulty variant of DataFrom: the biases field is filled from the weights.
DataFromMixed(net) ==
    [layers |-> net.layers, learning_rate |-> net.learning_rate,
     weights |-> net.weights, biases |-> net.weights]

\* impl From<&Network<F>> for Data
DataFrom(net) ==
    [layers |-> net.layers, learning_rate |-> net.learning_rate,
     weights |-> net.weights, biases |-> net.biases]

\* The record as written: every sequence is preceded by its length, every
\* matrix by its row and column counts.
SerMatrix(m) == <<m.rows, m.cols>> \o Flatten(m.at)

SerMatrices(ms) == <<Len(ms)>> \o Flatten([k \in 1..Len(ms) |-> SerMatrix(ms[k])])

Serialize(d) ==
    <<Len(d.layers)>> \o d.layers \o <<d.learning_rate>>
        \o SerMatrices(d.weights) \o SerMatrices(d.biases)

Parsed(ok, val, next) == [ok |-> ok, val |-> val, next |-> next]

\* n scalars starting at position p.
ParseScalars(t, p, n) ==
    IF n < 0 \/ p + n - 1 > Len(t)
    THEN Parsed(FALSE, <<>>, p)
    ELSE Parsed(TRUE, [k \in 1..n |-> t[p + k - 1]], p + n)

ParseMatrix(t, p) ==
    IF p + 1 > Len(t)
    THEN Parsed(FALSE, <<>>, p)
    ELSE LET r == t[p]
             c == t[p + 1]
             cells == ParseScalars(t, p + 2, r * c)
         IN  IF r < 0 \/ c < 0 \/ ~cells.ok
             THEN Parsed(FALSE, <<>>, p)
             ELSE Parsed(TRUE,
                         Matrix(r, c, [i \in 1..r |-> [j \in 1..c |-> cells.val[(i - 1) * c + j]]]),
                         cells.next)

RECURSIVE ParseMatrixList(_, _, _, _)
ParseMatrixList(t, p, n, acc) ==
    IF n = 0
    THEN Parsed(TRUE, acc, p)
    ELSE LET m == ParseMatrix(t, p)
         IN  IF ~m.ok THEN Parsed(FALSE, <<>>, p)
             ELSE ParseMatrixList(t, m.next, n - 1, Append(acc, m.val))

ParseMatrices(t, p) ==
    IF p > Len(t) \/ t[p] < 0
    THEN Parsed(FALSE, <<>>, p)
    ELSE ParseMatrixList(t, p + 1, t[p], <<>>)

\* Data::deserialize_json
Deserialize(t) ==
    IF Len(t) = 0 \/ t[1] < 0
    THEN Parsed(FALSE, <<>>, 1)
    ELSE LET ls == ParseScalars(t, 2, t[1]) IN
    IF ~ls.ok \/ ls.next > Len(t)
    THEN Parsed(FALSE, <<>>, 1)
    ELSE LET ws == ParseMatrices(t, ls.next + 1) IN
    IF ~ws.ok
    THEN Parsed(FALSE, <<>>, 1)
    ELSE LET bs == ParseMatrices(t, ws.next) IN
    IF ~bs.ok \/ bs.next # Len(t) + 1
    THEN Parsed(FALSE, <<>>, 1)
    ELSE Parsed(TRUE,
                [layers |-> ls.val, learning_rate |-> t[ls.next],
                 weights |-> ws.val, biases |-> bs.val],
                bs.next)

\* The network Network::load builds from a parsed record.
FromData(d) == Network(d.layers, d.weights, d.biases, <<>>, d.learning_rate)

\* Network::load on the contents of a file that could be read.
Load(contents) ==
    LET d == Deserialize(contents)
    IN  IF ~d.ok
        THEN Outcome(NoNetwork, "FailedToParse", <<>>, <<>>)
        ELSE Outcome(FromData(d.val), "none", <<>>, <<>>)

\* Network::save: the bytes written to the created file.
Save(net) == Serialize(DataFrom(net))

\* ------------------------------------------------------------ the caller's inputs

RECURSIVE Compositions(_, _)
\* The sequences of at most n positive layer sizes of sum at most total.
Compositions(n, total) ==
    IF n = 0 \/ total = 0
    THEN {<<>>}
    ELSE {<<>>} \cup
         UNION {{<<first>> \o rest : rest \in Compositions(n - 1, total - first)} :
                first \in 1..total}

Topologies == Compositions(MaxNeurons, MaxNeurons)

Seeds == 0..(NumSeeds - 1)

\* learning_rate: new does not look at it, so a zero rate is accepted too.
Rates == {0, 1}

\* The vectors handed where n scalars are expected: two of that length, one
\* longer and (when there is one) one shorter.
VectorsFor(n) ==
    {Ones(n), Zeros(n), Ones(n + 1)} \cup (IF n > 1 THEN {Ones(n - 1)} ELSE {})

\* A batch of n examples: inputs and targets of the network's sizes,
\* alternating so that every index is told from its neighbours.
BatchInputs(size, n) == [j \in 1..n |-> IF j % 2 = 1 THEN Ones(size) ELSE Zeros(size)]

BatchTargets(size, n) == [j \in 1..n |-> IF j % 2 = 1 THEN Zeros(size) ELSE Ones(size)]

\* The (batch size, epochs) pairs train is called with: every small pair,
\* no epoch at all, and an empty batch with epoch counts that reach the
\* progress modulus (the first and the largest such u16).
TrainRuns ==
    ((1..MaxBatch) \X (1..MaxEpochs))
        \cup {<<MaxBatch, 0>>, <<0, LogThreshold>>, <<0, MaxU16>>}

\* A record that parses but whose matrices do not fit its layers, and a
\* truncated one, as files some other program left for load.
ForeignRecord == Serialize([layers |-> <<1, 1>>, learning_rate |-> 1,
                            weights |-> <<>>, biases |-> <<>>])

CorruptRecord == <<2, 1>>

\* ------------------------------------------------------------ state

VARIABLES
    net,      \* the caller's Network (NoNetwork when construction failed)
    origin,   \* "new", "saved" (loaded from what save wrote), "foreign", "none"
    file,     \* what save last wrote: [written, bytes]
    saved,    \* the network save was called on, when file.written
    held,     \* the last two feed_forward results the caller holds, newest first
    lastOp,   \* the last call: its name, arguments, error and result
    nops      \* calls made since construction

vars == <<net, origin, file, saved, held, lastOp, nops>>

Call(op, arg, err, ret, aux, fresh) ==
    [op |-> op, arg |-> arg, err |-> err, ret |-> ret, aux |-> aux, fresh |-> fresh]

NoFile == [written |-> FALSE, bytes |-> <<>>]

\* A panic ends the program; an Err from load or save does not.
Alive == lastOp.err \notin PanicKinds /\ nops < MaxOps

\* The state after Network::new(layers, learning_rate).
Init ==
    \E layers \in Topologies, lr \in Rates, seed \in Seeds :
        LET r == New(layers, lr, seed)
        IN  /\ net = r.net
            /\ origin = IF r.err = "none" THEN "new" ELSE "none"
            /\ file = NoFile
            /\ saved = NoNetwork
            /\ held = <<>>
            /\ lastOp = Call("new", [layers |-> layers, learning_rate |-> lr], r.err,
                             <<>>, <<>>, FALSE)
            /\ nops = 0

\* The caller's results after feed_forward returned `out` for `inp`.
Holding(inp, out) == <<[inp |-> inp, out |-> out]>> \o SubSeq(held, 1, IF held = <<>> THEN 0 ELSE 1)

\* feed_forward(inputs).  `fresh` records that the call directly follows a
\* feed_forward that returned for the same inputs.
Forward ==
    /\ Alive
    /\ \E inputs \in VectorsFor(net.layers[1]) :
        LET r == FeedForward(net, inputs)
        IN  /\ net' = r.net
            /\ held' = IF r.err = "none" THEN Holding(inputs, r.ret) ELSE held
            /\ lastOp' = Call("forward", inputs, r.err, r.ret, <<>>,
                              lastOp.op = "forward" /\ lastOp.err = "none"
                                  /\ lastOp.arg = inputs)
    /\ nops' = nops + 1
    /\ UNCHANGED <<origin, file, saved>>

\* The outputs the caller can hand to back_propogate, each with the inputs
\* that produced it: a result it holds, or, before any feed_forward, a vector
\* it made up (`made` tells the two apart).
HeldResults ==
    IF held = <<>>
    THEN {[inp |-> <<>>, out |-> Ones(Last(net.layers)), made |-> TRUE]}
    ELSE {[inp |-> held[k].inp, out |-> held[k].out, made |-> FALSE] : k \in 1..Len(held)}

\* back_propogate(outputs, targets).  `fresh` records that the call directly
\* follows the feed_forward that returned these outputs.
Backward ==
    /\ Alive
    /\ \E h \in HeldResults, targets \in VectorsFor(Last(net.layers)) :
        LET r == BackPropogate(net, h.out, targets)
        IN  /\ r.err # "OutOfModelRange"
            /\ net' = r.net
            /\ lastOp' = Call("backward",
                              [outputs |-> h.out, targets |-> targets, from |-> h.inp,
                               made |-> h.made],
                              r.err, <<>>, r.aux,
                              lastOp.op = "forward" /\ lastOp.err = "none"
                                  /\ lastOp.ret = h.out /\ lastOp.arg = h.inp)
    /\ nops' = nops + 1
    /\ UNCHANGED <<origin, file, saved, held>>

\* train(inputs, targets, epochs) on a batch of well-sized examples.
TrainCall ==
    /\ Alive
    /\ \E run \in TrainRuns :
        LET inputs == BatchInputs(net.layers[1], run[1])
            targets == BatchTargets(Last(net.layers), run[1])
            r == Train(net, inputs, targets, run[2])
        IN  /\ run[2] <= MaxU16
            /\ r.err # "OutOfModelRange"
            /\ net' = r.net
            /\ lastOp' = Call("train", [inputs |-> inputs, targets |-> targets,
                                        epochs |-> run[2]],
                              r.err, <<>>, r.aux, FALSE)
    /\ nops' = nops + 1
    /\ UNCHANGED <<origin, file, saved, held>>

\* save(path) when the file can be created and written.
SaveCall ==
    /\ Alive
    /\ file' = [written |-> TRUE, bytes |-> Save(net)]
    /\ saved' = net
    /\ lastOp' = Call("save", <<>>, "none", <<>>, <<>>, FALSE)
    /\ nops' = nops + 1
    /\ UNCHANGED <<net, origin, held>>

\* save(path) when File::create fails: Err, nothing written.
SaveFails ==
    /\ Alive
    /\ lastOp' = Call("save", <<>>, "io", <<>>, <<>>, FALSE)
    /\ nops' = nops + 1
    /\ UNCHANGED <<net, origin, file, saved, held>>

\* load(path) of the file save wrote; the caller goes on with the result.
LoadSaved ==
    /\ Alive
    /\ file.written
    /\ LET r == Load(file.bytes)
       IN  /\ net' = r.net
           /\ origin' = IF r.err = "none" THEN "saved" ELSE "none"
           /\ lastOp' = Call("load", "saved", r.err, <<>>, <<>>, FALSE)
    /\ nops' = nops + 1
    /\ UNCHANGED <<file, saved, held>>

\* load(path) of a file written by something else.
LoadForeign ==
    /\ Alive
    /\ \E contents \in {ForeignRecord, CorruptRecord} :
        LET r == Load(contents)
        IN  /\ net' = r.net
            /\ origin' = IF r.err = "none" THEN "foreign" ELSE "none"
            /\ lastOp' = Call("load", "foreign", r.err, <<>>, <<>>, FALSE)
    /\ nops' = nops + 1
    /\ UNCHANGED <<file, saved, held>>

\* load(path) when the file cannot be read: Err, the caller keeps its network.
LoadFails ==
    /\ Alive
    /\ lastOp' = Call("load", "missing", "io", <<>>, <<>>, FALSE)
    /\ nops' = nops + 1
    /\ UNCHANGED <<net, origin, file, saved, held>>

\* The calls on one network other than train.
Next ==
    \/ Forward
    \/ Backward
    \/ SaveCall
    \/ SaveFails
    \/ LoadSaved
    \/ LoadForeign
    \/ LoadFails

Spec == Init /\ [][Next]_vars

\* The same calls and train, which is a loop of feed_forward and
\* back_propogate calls.
NextTrain ==
    \/ TrainCall
    \/ Forward
    \/ Backward
    \/ SaveCall
    \/ SaveFails
    \/ LoadSaved
    \/ LoadForeign
    \/ LoadFails

SpecTrain == Init /\ [][NextTrain]_vars

\* ------------------------------------------------------------ properties

\* The step just taken is a call of `op`.
Called(op) == nops' = nops + 1 /\ lastOp'.op = op

WellShaped(n) ==
    /\ Len(n.weights) = Len(n.layers) - 1
    /\ Len(n.biases) = Len(n.layers) - 1
    /\ \A i \in 1..Len(n.weights) :
        /\ i + 1 <= Len(n.layers)
        /\ n.weights[i].rows = n.layers[i + 1]
        /\ n.weights[i].cols = n.layers[i]
    /\ \A i \in 1..Len(n.biases) :
        /\ i + 1 <= Len(n.layers)
        /\ n.biases[i].rows = n.layers[i + 1]
        /\ n.biases[i].cols = 1

\* C1: on a network built by new with at least two layers and a positive
\* learning rate, back_propogate called directly after the feed_forward that
\* returned its outputs, with targets of the output layer's size, completes
\* (no shape mismatch, no other panic) and has assigned every weights[i] and
\* every biases[i] exactly once.
C1_BackwardAfterForwardCompletes ==
    (/\ lastOp.op = "backward"
     /\ lastOp.fresh
     /\ origin = "new"
     /\ Len(net.layers) >= 2
     /\ net.learning_rate > 0
     /\ Len(lastOp.arg.targets) = Last(net.layers))
    => /\ lastOp.err = "none"
       /\ \A i \in 1..(Len(net.layers) - 1) :
            lastOp.aux.w[i] = 1 /\ lastOp.aux.b[i] = 1

\* C2: new fails, and yields no network, whenever layers has fewer than two
\* entries, some layer size is 0, or learning_rate is not positive.
C2_ConstructRejectsInvalid ==
    (/\ lastOp.op = "new"
     /\ \/ Len(lastOp.arg.layers) < 2
        \/ \E i \in 1..Len(lastOp.arg.layers) : lastOp.arg.layers[i] = 0
        \/ lastOp.arg.learning_rate <= 0)
    => lastOp.err # "none" /\ origin = "none" /\ net = NoNetwork

\* C3: on a network built by new, every feed_forward with layers[0] inputs
\* returns layers.last() values and leaves a cache of exactly layers.len()
\* columns, data[i] of layers[i] rows, the first holding the inputs and the
\* last holding the returned values.
C3_ForwardFillsCache ==
    (/\ lastOp.op = "forward"
     /\ origin = "new"
     /\ Len(lastOp.arg) = net.layers[1])
    => /\ lastOp.err = "none"
       /\ Len(lastOp.ret) = Last(net.layers)
       /\ Len(net.data) = Len(net.layers)
       /\ \A i \in 1..Len(net.data) :
            net.data[i].rows = net.layers[i] /\ net.data[i].cols = 1
       /\ net.data[1] = Transpose(Row(lastOp.arg))
       /\ Last(net.data) = Transpose(Row(lastOp.ret))

\* A second feed_forward on a three-layer network, run while the cache of an
\* earlier call on other inputs was in place.
C3_Witness ==
    /\ lastOp.op = "forward" /\ lastOp.err = "none" /\ origin = "new"
    /\ Len(net.layers) = 3
    /\ nops = 2 /\ Len(held) = 2 /\ held[2].inp # held[1].inp

\* C4: every network the caller holds has one weight and one bias matrix per
\* pair of adjacent layers, weights[i] of shape (layers[i+1], layers[i]) and
\* biases[i] of shape (layers[i+1], 1), whether it was built by new or load.
C4_ShapesFollowLayers == origin # "none" => WellShaped(net)

\* C5: train on a network built by new (at least two layers, a positive
\* learning rate), with n well-sized examples, returns
\* after exactly epochs * n feed_forward calls, each directly followed by the
\* back_propogate call that receives its outputs and the target of the same
\* index, epoch after epoch and in index order within an epoch.
C5_TrainRunsEveryExample ==
    (lastOp.op = "train" /\ origin = "new" /\ Len(net.layers) >= 2
        /\ net.learning_rate > 0)
    => LET n == Len(lastOp.arg.inputs)
           calls == lastOp.aux
       IN  /\ lastOp.err = "none"
           /\ Len(calls) = 2 * lastOp.arg.epochs * n
           /\ \A k \in 1..(Len(calls) \div 2) :
                LET f == calls[2 * k - 1]
                    b == calls[2 * k]
                    idx == ((k - 1) % n) + 1
                IN  /\ f.op = "forward" /\ b.op = "backward"
                    /\ f.epoch = ((k - 1) \div n) + 1 /\ b.epoch = f.epoch
                    /\ f.idx = idx /\ b.idx = idx
                    /\ f.a = lastOp.arg.inputs[idx]
                    /\ b.a = f.b
                    /\ b.b = lastOp.arg.targets[idx]

\* C6: load of what save wrote yields the layers, learning rate, weights and
\* biases of the network save was called on, with an empty cache; and save
\* leaves the network it was called on as it was.
C6_SaveLoadRoundTrip ==
    /\ (lastOp.op = "save" /\ lastOp.err = "none") => net = saved
    /\ (lastOp.op = "load" /\ lastOp.arg = "saved")
        => /\ lastOp.err = "none"
           /\ net.layers = saved.layers
           /\ net.learning_rate = saved.learning_rate
           /\ net.weights = saved.weights
           /\ net.biases = saved.biases
           /\ net.data = <<>>

\* A network with weights saved while it held a cache, then loaded.
C6_Witness ==
    /\ lastOp.op = "load" /\ lastOp.arg = "saved" /\ lastOp.err = "none"
    /\ saved.data # <<>>
    /\ Len(net.layers) >= 2

\* The cache is missing, or was left by a feed_forward on other inputs than
\* the one that returned the outputs now handed to back_propogate (and holds
\* other outputs than those).
CacheStale ==
    \/ net.data = <<>>
    \/ /\ ~lastOp'.arg.made
       /\ net.data[1] # Transpose(Row(lastOp'.arg.from))
       /\ Last(net.data) # Transpose(Row(lastOp'.arg.outputs))

\* C7: back_propogate on a network (at least two layers, a positive
\* learning rate) whose cache is
\* missing or stale fails and leaves every weight and bias as it was.
C7_BackwardRejectsStaleCache ==
    [][(Called("backward") /\ Len(net.layers) >= 2 /\ net.learning_rate > 0
            /\ CacheStale)
        => /\ lastOp'.err # "none"
           /\ net'.weights = net.weights
           /\ net'.biases = net.biases]_vars

\* C8: feed_forward with a number of inputs other than layers[0] fails with
\* the input-size error, returns nothing and leaves the network, cache
\* included, as it was.
C8_ForwardRejectsWrongSize ==
    [][(Called("forward") /\ Len(net.layers) >= 1
            /\ Len(lastOp'.arg) # net.layers[1])
        => /\ lastOp'.err = "InvalidNumberOfInputs"
           /\ lastOp'.ret = <<>>
           /\ net' = net]_vars

\* A rejected feed_forward on a network that held a cache.
C8_Witness ==
    /\ lastOp.op = "forward" /\ lastOp.err = "InvalidNumberOfInputs"
    /\ net.data # <<>>

\* C9: feed_forward changes no field but the cache, and a feed_forward that
\* directly follows one on the same inputs returns the same outputs and
\* leaves the same cache.
C9_ForwardTouchesOnlyCache ==
    [][Called("forward")
        => /\ net'.layers = net.layers
           /\ net'.weights = net.weights
           /\ net'.biases = net.biases
           /\ net'.learning_rate = net.learning_rate
           /\ lastOp'.fresh
                => /\ lastOp'.err = "none"
                   /\ lastOp'.ret = lastOp.ret
                   /\ net'.data = net.data]_vars

\* Two feed_forward calls in a row on the same inputs, on a network with
\* weights.
C9_Witness ==
    /\ lastOp.op = "forward" /\ lastOp.fresh /\ lastOp.err = "none"
    /\ Len(net.layers) >= 2

\* C10: in every iteration i of a back_propogate that directly follows the
\* feed_forward that returned its outputs, whenever a later iteration reads
\* the propagated error (i > 0 in the source's numbering), the error passed
\* to the earlier layer is transpose(W) * error for the W that weights[i]
\* held before the call updated it.
C10_PropagatesWithOldWeights ==
    [][(Called("backward") /\ lastOp'.fresh /\ origin = "new"
            /\ net.learning_rate > 0)
        => \A k \in 1..Len(lastOp'.aux.steps) :
            LET s == lastOp'.aux.steps[k]
            IN  s.i >= 2 => s.passed = Mul(Transpose(net.weights[s.i]), s.received)]_vars

====
